---- MODULE Spec2Model ----
(***************************************************************************)
(* Verse-Pilot: the verse-detection pipeline.                              *)
(*   - the reference catalog, the fast extractor and the slow validator    *)
(*     (pure functions, specification SpecDetect);                         *)
(*   - the Tk consumer of the output queue, AppWindow (SpecUI);            *)
(*   - the three confirmation dialogs (SpecPopup);                         *)
(*   - the listener's transcription threads (SpecListener).                *)
(* Confidence values are integers in hundredths: 95 is 0.95, 9500 is 95.0. *)
(* An optional value is a sequence: <<>> is None, <<x>> is the value x.    *)
(***************************************************************************)
EXTENDS Integers, Sequences, FiniteSets, TLC

VARIABLES
    \* --- fast extractor / slow validator (pure functions) ---
    fx_in,                \* the three patterns' matches on one transcript
    fx_out,               \* extract_candidate's result for fx_in
    sv_in,                \* the parsed LLM payload handed to the item loop
    sv_out,               \* validate_with_gemini's result for sv_in
    det_pc,               \* "input" before the functions ran, "done" after
    sv_exc,               \* the exception validate_with_gemini raised, or "none"
    \* --- AppWindow (Tk consumer) ---
    verse_queue,          \* AppWindow.verse_queue
    recent_detections,    \* AppWindow.recent_detections
    rejected_keys,        \* AppWindow.rejected_keys
    confirmation_buffer,  \* AppWindow.confirmation_buffer
    live_history,         \* AppWindow.live_history
    confirmation_popup,   \* AppWindow.confirmation_popup
    candidates,           \* listener.verse_buffer.candidates
    ui_log,               \* the last message AppWindow logged
    settings,             \* the SettingsModel singleton
    now,                  \* time.time(), in seconds
    \* --- confirmation dialogs ---
    dialog,               \* the open dialog, if any
    dialog_results,       \* what each closed dialog reported
    \* --- listener threads ---
    running,              \* VerseListener._running
    transcription_thread, \* VerseListener._transcription_thread
    runs,                 \* every transcription thread started so far
    join_started,         \* when stop_listening's current join began
    join_target,          \* the thread stop_listening's join waits for
    cap_pc,               \* where the capture thread is
    ui_pc,                \* where the UI thread is inside the listener
    last_detection_time,  \* VerseListener.last_detection_time
    stream,               \* VerseListener._stream: None or the stream it refers to
    open_streams,         \* the input streams started and not stopped
    frames,               \* the frames _audio_callback has accepted
    \* --- one pipeline run after the other ---
    last_processed_transcript, \* VerseListener.last_processed_transcript
    last_confirmed,       \* state_tracker's (_last_book, _last_chapter)
    confirmations,        \* what verse_needs_confirmation has emitted
    pipe,                 \* what the last _process_transcript_logic call did
    ai_available,         \* VerseListener.ai_available
    \* --- the online detector's request loop ---
    slow_call,            \* the detect() call in progress or finished
    \* --- Tk's timer queue ---
    polls,                \* the pending after(100, check_verse_queue) callbacks
    \* --- the capture stage, frame by frame ---
    models_loaded,        \* VerseListener.models_loaded
    bound_queue,          \* VerseListener.verse_queue: None or the queue bound
    audio_queue,          \* VerseListener._audio_queue: frames and None sentinels
    audio_buffer,         \* VerseListener.audio_buffer, a deque with maxlen
    snapshots,            \* the audio_snapshot lists the triggers have taken
    evicted,              \* the frames the deque dropped at its maxlen
    ui_result,            \* how the UI thread's last listener call went
    device_error          \* the input device has failed under _run

vars == <<fx_in, fx_out, sv_in, sv_out, det_pc, sv_exc,
          verse_queue, recent_detections, rejected_keys, confirmation_buffer,
          live_history, confirmation_popup, candidates, ui_log, settings, now,
          dialog, dialog_results,
          running, transcription_thread, runs, join_started, join_target,
          cap_pc, ui_pc, last_detection_time,
          stream, open_streams, frames,
          last_processed_transcript, last_confirmed, confirmations, pipe,
          ai_available, slow_call, polls,
          models_loaded, bound_queue, audio_queue, audio_buffer, snapshots,
          evicted, ui_result, device_error>>

detVars == <<fx_in, fx_out, sv_in, sv_out, det_pc, sv_exc>>
uiVars == <<verse_queue, recent_detections, rejected_keys, confirmation_buffer,
            live_history, confirmation_popup, candidates, ui_log>>
dlgVars == <<dialog, dialog_results>>
lsnVars == <<running, transcription_thread, runs, join_started, join_target,
             cap_pc, ui_pc, last_detection_time>>
streamVars == <<stream, open_streams, frames>>
pipeVars == <<last_processed_transcript, last_confirmed, confirmations, pipe,
              ai_available>>
retryVars == <<slow_call>>
pollVars == <<polls>>
capVars == <<models_loaded, bound_queue, audio_queue, audio_buffer, snapshots,
             evicted, ui_result, device_error>>

None == <<>>
Some(x) == <<x>>
IsSome(o) == Len(o) > 0
Val(o) == o[1]

(***************************************************************************)
(* ReferenceCatalog                                                        *)
(***************************************************************************)

\* BOOK_TO_NUM_CHAPTERS, restricted to two books.
BOOK_TO_NUM_CHAPTERS == [b \in {"Exodus", "Jude"} |->
                            IF b = "Exodus" THEN 40 ELSE 1]

CatalogBooks == DOMAIN BOOK_TO_NUM_CHAPTERS

\* BOOK_VERSE_COUNTS[book].get(chapter, 0), for the chapters the inputs name.
VerseCount(book, chapter) ==
    CASE book = "Exodus" /\ chapter = 1 -> 22
      [] book = "Exodus" /\ chapter = 2 -> 25
      [] book = "Jude" /\ chapter = 1 -> 25
      [] OTHER -> 0

\* BOOK_ALIASES.get(book_raw, book_raw)
ResolveAlias(book_raw) == IF book_raw = "Ex" THEN "Exodus" ELSE book_raw

\* str.title() on the book strings the inputs use.
Title(s) ==
    CASE s \in {"exodus", "EXODUS", "Exodus"} -> "Exodus"
      [] s \in {"jude", "Jude"} -> "Jude"
      [] s \in {"ex", "Ex"} -> "Ex"
      [] s \in {"maccabees", "Maccabees"} -> "Maccabees"
      [] s = "s turn to jude" -> "S Turn To Jude"
      [] OTHER -> s

(***************************************************************************)
(* FastVerseExtractor                                                      *)
(***************************************************************************)

\* A matched number group: digits, or a word (patterns' chapter_word group).
Digits(n) == [kind |-> "digits", n |-> n, w |-> ""]
Word(w) == [kind |-> "word", n |-> 0, w |-> w]

\* spoken_to_number.get(val.lower())
SpokenToNumber(w) ==
    CASE w = "one" -> Some(1)
      [] w = "two" -> Some(2)
      [] w = "twenty" -> Some(20)
      [] OTHER -> None

\* normalize_number: int(val), else the spoken word's number, else None.
normalize_number(tok) ==
    IF tok.kind = "digits" THEN Some(tok.n) ELSE SpokenToNumber(tok.w)

\* Python truthiness of all([book, chapter_num, verse_num]).
AllTruthy(book, ch, vs) ==
    /\ book # ""
    /\ IsSome(ch) /\ Val(ch) # 0
    /\ IsSome(vs) /\ Val(vs) # 0

\* a candidate marked partial, for review, with a lower confidence
C24MutFastCandidate(book, ch, vs) ==
    [book |-> book, chapter |-> ch, verse |-> vs, confidence_score |-> 80,
     source |-> "fast", status |-> "pending", validation_status |-> "unknown",
     is_partial |-> TRUE, review_required |-> TRUE]

FastCandidate(book, ch, vs) ==
    [book |-> book, chapter |-> ch, verse |-> vs, confidence_score |-> 95,
     source |-> "fast", status |-> "pending", validation_status |-> "unknown",
     is_partial |-> FALSE, review_required |-> FALSE]

\* a loop body without the verse-range test
C4MutPatternResult(m) ==
    IF ~IsSome(m) THEN None
    ELSE LET book == ResolveAlias(Title(Val(m).book))
             ch == normalize_number(Val(m).chapter)
             vs == normalize_number(Val(m).verse)
         IN IF ~AllTruthy(book, ch, vs) THEN None
            ELSE IF book \notin CatalogBooks THEN None
            ELSE IF ~(1 <= Val(ch) /\ Val(ch) <= BOOK_TO_NUM_CHAPTERS[book]) THEN None
            ELSE Some(FastCandidate(book, Val(ch), Val(vs)))

\* One pass of the loop body for one pattern's match m (None: no match):
\* the candidate it returns, or None when the loop continues.
PatternResult(m) ==
    IF ~IsSome(m) THEN None
    ELSE LET book == ResolveAlias(Title(Val(m).book))
             ch == normalize_number(Val(m).chapter)
             vs == normalize_number(Val(m).verse)
         IN IF ~AllTruthy(book, ch, vs) THEN None
            ELSE IF book \notin CatalogBooks THEN None
            ELSE IF ~(1 <= Val(ch) /\ Val(ch) <= BOOK_TO_NUM_CHAPTERS[book]) THEN None
            ELSE IF ~(1 <= Val(vs) /\ Val(vs) <= VerseCount(book, Val(ch))) THEN None
            ELSE Some(FastCandidate(book, Val(ch), Val(vs)))

\* extract_candidate: the for loop over REGEX_PATTERNS, from pattern i on.
RECURSIVE ExtractFrom(_, _)
ExtractFrom(matches, i) ==
    IF i > Len(matches) THEN None
    ELSE LET r == PatternResult(matches[i])
         IN IF IsSome(r) THEN r ELSE ExtractFrom(matches, i + 1)

extract_candidate(matches) == ExtractFrom(matches, 1)

(***************************************************************************)
(* SlowValidator                                                           *)
(***************************************************************************)

\* a gate that lets every named book through
C5MutIsKnownBook(book) == book # ""

\* is_known_book: book in BOOK_TO_NUM_CHAPTERS
is_known_book(book) == book \in CatalogBooks

\* BOOK_TO_NUM_CHAPTERS.get(book, 999)
is_valid_reference(book, chapter) ==
    ~(chapter > (IF book \in CatalogBooks THEN BOOK_TO_NUM_CHAPTERS[book] ELSE 999))

SlowCandidate(item, book, status) ==
    [book |-> book, chapter |-> item.chapter, verse |-> item.verse,
     confidence_score |-> item.certainty,
     source |-> "slow", status |-> "pending", validation_status |-> status,
     is_partial |-> ~(item.certainty >= 80),
     review_required |-> item.certainty < 80]

\* The body of "for item in raw_data": the candidates one item appends.
ValidateItem(item) ==
    LET book == Title(item.book)
    IN IF book = "" \/ item.chapter = 0 \/ item.verse = 0 THEN <<>>
       ELSE IF ~is_known_book(book) THEN <<>>
       ELSE <<SlowCandidate(item, book,
                IF is_valid_reference(book, item.chapter)
                THEN "valid" ELSE "invalid_chapter")>>

RECURSIVE ValidateItems(_)
ValidateItems(items) ==
    IF items = <<>> THEN <<>>
    ELSE ValidateItem(Head(items)) \o ValidateItems(Tail(items))

\* validate_with_gemini from the parsed payload on: the "review_required"
\* marker yields nothing, a single object is wrapped into a list.
validate_with_gemini(payload) ==
    IF payload.kind = "marker" THEN <<>>
    ELSE ValidateItems(payload.items)

\* VerseListener._process_transcript_logic, the loop over slow_candidates:
\* the three "continue" tests before a candidate is buffered and routed.
ListenerKeeps(c) ==
    /\ c.book \in CatalogBooks
    /\ ~(c.chapter > BOOK_TO_NUM_CHAPTERS[c.book])
    /\ ~(c.verse > VerseCount(c.book, c.chapter))

\* the candidates of slow_candidates that reach verse_queue.put or
\* verse_needs_confirmation.emit
SlowPathRouted(slow_candidates) == SelectSeq(slow_candidates, ListenerKeeps)

(***************************************************************************)
(* SpecDetect: the two extractors applied to bounded inputs.               *)
(***************************************************************************)

NumPatterns == 3
MaxItems == 2

RawBooks == {"exodus", "ex", "maccabees"}
\* what patterns 1 and 2 can capture (\d{1,3} groups)
DigitMatches ==
    [book : RawBooks, chapter : {Digits(n) : n \in {0, 1, 41, 999}},
     verse : {Digits(n) : n \in {1, 23}}]
\* what pattern 3 can capture (\w+ groups)
WordMatches ==
    [book : RawBooks, chapter : {Digits(1), Word("one"), Word("banana")},
     verse : {Digits(23), Word("two"), Word("banana")}]
OptionOf(S) == {None} \cup {Some(x) : x \in S}
FastInputs ==
    {<<m1, m2, m3>> : m1 \in OptionOf(DigitMatches), m2 \in OptionOf(DigitMatches),
                      m3 \in OptionOf(WordMatches)}

Items ==
    [book : {"jude", "Maccabees", ""}, chapter : {-1, 0, 1, 41},
     verse : {0, 1, 26}, certainty : {50, 80}]
SeqsUpTo(S, n) == UNION {[1..k -> S] : k \in 0..n}
SlowInputs ==
    {[kind |-> "marker", items |-> <<>>]}
    \cup {[kind |-> "object", items |-> <<i>>] : i \in Items}
    \cup {[kind |-> "list", items |-> l] : l \in SeqsUpTo(Items, MaxItems)}

(***************************************************************************)
(* validate_with_gemini from the response text on: the fences, json.loads, *)
(* the marker test and the conversions of the item loop.                   *)
(***************************************************************************)

\* JSON values of an item's fields
Missing == [t |-> "missing", n |-> 0, s |-> ""]
JNull == [t |-> "null", n |-> 0, s |-> ""]
JInt(n) == [t |-> "int", n |-> n, s |-> ""]
JStr(s) == [t |-> "str", n |-> 0, s |-> s]

Ok(v) == [exc |-> "none", v |-> v]
Raise(e) == [exc |-> e, v |-> 0]

\* the decimal strings int() and float() accept, among those of the inputs
NumericStrings == {"1", "41"}
StrToInt(s) == IF s = "1" THEN 1 ELSE 41

\* int(item.get(key, 0))
PyInt(f) ==
    CASE f.t = "missing" -> Ok(0)
      [] f.t = "int" -> Ok(f.n)
      [] f.t = "str" -> IF f.s \in NumericStrings THEN Ok(StrToInt(f.s))
                        ELSE Raise("ValueError")
      [] OTHER -> Raise("TypeError")

\* float(item.get("certainty", 0.5)), in hundredths
PyFloat(f) ==
    CASE f.t = "missing" -> Ok(50)
      [] f.t = "int" -> Ok(f.n)
      [] f.t = "str" -> IF f.s \in NumericStrings THEN Ok(StrToInt(f.s) * 100)
                        ELSE Raise("ValueError")
      [] OTHER -> Raise("TypeError")

\* item.get("book", "").title()
PyTitle(f) ==
    CASE f.t = "missing" -> Ok("")
      [] f.t = "str" -> Ok(Title(f.s))
      [] OTHER -> Raise("AttributeError")

\* the loop body for one element of raw_data: item.get on a value that is
\* not an object is an AttributeError; the certainty is converted only for
\* an item that is not skipped
ParseItem(e) ==
    IF e.t # "object" THEN Raise("AttributeError")
    ELSE LET book == PyTitle(e.book)
             chapter == PyInt(e.chapter)
             verse == PyInt(e.verse)
         IN IF book.exc # "none" THEN book
            ELSE IF chapter.exc # "none" THEN chapter
            ELSE IF verse.exc # "none" THEN verse
            ELSE LET item == [book |-> book.v, chapter |-> chapter.v,
                              verse |-> verse.v, certainty |-> 50]
                     certainty == PyFloat(e.certainty)
                 IN IF ValidateItem(item) = <<>> THEN Ok(<<>>)
                    ELSE IF certainty.exc # "none" THEN certainty
                    ELSE Ok(ValidateItem([item EXCEPT !.certainty = certainty.v]))

RECURSIVE ParseItems(_)
ParseItems(elems) ==
    IF elems = <<>> THEN Ok(<<>>)
    ELSE LET r == ParseItem(Head(elems))
         IN IF r.exc # "none" THEN r
            ELSE LET rest == ParseItems(Tail(elems))
                 IN IF rest.exc # "none" THEN rest
                    ELSE Ok(r.v \o rest.v)

\* cleaned.startswith("```json") / cleaned.endswith("```"): what is left
\* for json.loads parses only if no fence marker remains
Cleaned(text) ==
    IF text.fence = "plain" THEN [text EXCEPT !.body = [t |-> "not_json"]]
    ELSE text

\* from json.loads to the return, before the except clause
ParseBody(body) ==
    CASE body.t = "not_json" -> Ok(<<>>)
      [] body.t = "marker" -> Ok(<<>>)
      [] body.t \in {"null", "int"} -> Raise("TypeError")
      [] body.t = "str" -> IF body.s = "" THEN Ok(<<>>)
                           ELSE Raise("AttributeError")
      [] body.t = "object" -> ParseItems(<<body>>)
      [] OTHER -> ParseItems(body.elems)

\* the exceptions "except (json.JSONDecodeError, KeyError, IndexError,
\* TypeError)" catches
CaughtExceptions == {"JSONDecodeError", "KeyError", "IndexError", "TypeError"}

\* validate_with_gemini's outcome for a response text: the candidates
\* returned, or the exception that leaves the function
parse_response(text) ==
    LET r == ParseBody(Cleaned(text).body)
    IN IF r.exc = "none" THEN r
       ELSE IF r.exc \in CaughtExceptions THEN Ok(<<>>)
       ELSE r

JObject(book, chapter, verse, certainty) ==
    [t |-> "object", book |-> book, chapter |-> chapter, verse |-> verse,
     certainty |-> certainty]
RawObjects ==
    {JObject(b, c, v, ct) :
        b \in {Missing, JNull, JStr("jude"), JStr("Maccabees")},
        c \in {JInt(1), JStr("1"), JStr("one"), JNull},
        v \in {Missing, JInt(1)},
        ct \in {Missing, JInt(80), JStr("high")}}
RawListElems ==
    {JObject(JStr("jude"), JInt(1), JInt(1), JInt(80)),
     JObject(JStr("jude"), JStr("one"), JInt(1), JInt(80)),
     JObject(JNull, JInt(1), JInt(1), Missing),
     JInt(5)}
RawBodies ==
    {[t |-> "not_json"], [t |-> "marker"], [t |-> "null"], JInt(5),
     JStr(""), JStr("no verse")}
    \cup RawObjects
    \cup {[t |-> "list", elems |-> l] : l \in SeqsUpTo(RawListElems, MaxItems)}
RawInputs ==
    {[kind |-> "raw", items |-> <<>>, fence |-> f, body |-> b] :
        f \in {"none", "json", "plain"}, b \in RawBodies}

\* validate_with_gemini(transcript, ...) on a response text
ParseResponse ==
    /\ det_pc = "raw_input"
    /\ sv_out' = IF parse_response(sv_in).exc = "none"
                 THEN parse_response(sv_in).v ELSE <<>>
    /\ sv_exc' = parse_response(sv_in).exc
    /\ det_pc' = "raw_done"
    /\ UNCHANGED <<fx_in, fx_out, sv_in>>
    /\ UNCHANGED <<uiVars, settings, now, dlgVars, lsnVars, streamVars,
                   pipeVars, retryVars, pollVars, capVars>>

NoPayload == [kind |-> "marker", items |-> <<>>]
NoMatches == <<None, None, None>>

DetIdle ==
    /\ fx_in = NoMatches /\ fx_out = None
    /\ sv_in = NoPayload /\ sv_out = <<>>
    /\ det_pc = "idle" /\ sv_exc = "none"

InitDetect ==
    \/ /\ fx_in \in FastInputs /\ sv_in = NoPayload /\ det_pc = "fast_input"
       /\ fx_out = None /\ sv_out = <<>> /\ sv_exc = "none"
    \/ /\ sv_in \in SlowInputs /\ fx_in = NoMatches /\ det_pc = "slow_input"
       /\ fx_out = None /\ sv_out = <<>> /\ sv_exc = "none"
    \/ /\ sv_in \in RawInputs /\ fx_in = NoMatches /\ det_pc = "raw_input"
       /\ fx_out = None /\ sv_out = <<>> /\ sv_exc = "none"

\* FastVerseExtractor.extract_candidate(transcript)
ExtractCandidate ==
    /\ det_pc = "fast_input"
    /\ Len(fx_in) = NumPatterns
    /\ fx_out' = extract_candidate(fx_in)
    /\ det_pc' = "fast_done"
    /\ UNCHANGED <<fx_in, sv_in, sv_out, sv_exc>>
    /\ UNCHANGED <<uiVars, settings, now, dlgVars, lsnVars, streamVars,
                 pipeVars, retryVars, pollVars, capVars>>

\* validate_with_gemini(transcript, ...)
ValidateWithGemini ==
    /\ det_pc = "slow_input"
    /\ sv_out' = validate_with_gemini(sv_in)
    /\ det_pc' = "slow_done"
    /\ UNCHANGED <<fx_in, fx_out, sv_in, sv_exc>>
    /\ UNCHANGED <<uiVars, settings, now, dlgVars, lsnVars, streamVars,
                 pipeVars, retryVars, pollVars, capVars>>

(***************************************************************************)
(* AppWindow: the consumer of the output queue                             *)
(***************************************************************************)

DEBOUNCE_SECONDS == 15
RECENT_MAX_AGE == 30
BUFFER_MAX_AGE == 60

TimeStep == 10
MaxTime == 70
MaxDetections == 3

Scores == {80, 95}
UIVerses == {1, 2}

\* the settings file's values (SettingsModel._load takes them as they are)
SettingsChoices ==
    [require_approval : BOOLEAN, confidence_threshold : {96, 9600},
     auto_show_after_delay : BOOLEAN, auto_show_delay_seconds : {0, 10}]

\* Python's == between a tuple, a str and a dict is False across the types.
PyEq(a, b) == a.kind = b.kind /\ a = b

\* VerseListener._format_candidate_for_queue: confidence_score * 100
format_candidate_for_queue(c) ==
    [kind |-> "dict", book |-> c.book, chapter |-> c.chapter, verse |-> c.verse,
     confidence |-> c.confidence_score * 100, buffer_timestamp |-> -1]

\* check_verse_queue: key = (book, int(chapter), int(verse))
TupleKey(v) ==
    [kind |-> "tuple", book |-> v.book, chapter |-> v.chapter, verse |-> v.verse]

\* AppWindow._get_verse_key: f"{book} {chapter}:{verse}"
get_verse_key(v) ==
    [kind |-> "str", book |-> v.book, chapter |-> v.chapter, verse |-> v.verse]

UIKeys == {TupleKey([book |-> "Jude", chapter |-> 1, verse |-> n]) : n \in UIVerses}

\* "key in self.rejected_keys"
InRejected(key, rejected) == \E r \in rejected : PyEq(key, r)

\* "key in self.confirmation_buffer"
InBuffer(key, buffer) == \E i \in 1..Len(buffer) : PyEq(key, buffer[i])

\* a consumer that does not look at live_history before accepting
C7MutInHistory(v, history) == FALSE

\* any(v["book"] == book and v["chapter"] == ... for v in self.live_history)
InHistory(v, history) ==
    \E i \in 1..Len(history) :
        /\ history[i].book = v.book
        /\ history[i].chapter = v.chapter
        /\ history[i].verse = v.verse

\* a debounce test that lets an equal confidence through
C6MutIsDuplicate(prev, confidence, t) ==
    /\ IsSome(prev)
    /\ t - Val(prev).timestamp < DEBOUNCE_SECONDS
    /\ confidence < Val(prev).confidence

\* the debounce test: prev and now - prev["timestamp"] < 15, then
\* confidence <= prev["confidence"]
IsDuplicate(prev, confidence, t) ==
    /\ IsSome(prev)
    /\ t - Val(prev).timestamp < DEBOUNCE_SECONDS
    /\ confidence <= Val(prev).confidence

\* settings.require_approval and confidence < settings.confidence_threshold
NeedsConfirmation(st, confidence) ==
    st.require_approval /\ confidence < st.confidence_threshold

\* logging.info / logging.warning of AppWindow
Log(msg, key) == [msg |-> msg, key |-> key]
NoLog == Log("", [kind |-> "none", book |-> "", chapter |-> 0, verse |-> 0])

UIIdle ==
    /\ verse_queue = <<>>
    /\ recent_detections = [k \in UIKeys |-> None]
    /\ rejected_keys = {}
    /\ confirmation_buffer = <<>>
    /\ live_history = <<>>
    /\ confirmation_popup = None
    /\ candidates = <<>>
    /\ ui_log = NoLog
    /\ polls = 1

\* SettingsModel._defaults
DefaultSettings ==
    [require_approval |-> TRUE, confidence_threshold |-> 60,
     auto_show_after_delay |-> TRUE, auto_show_delay_seconds |-> 30]


DlgIdle == dialog = None /\ dialog_results = <<>>

LsnIdle ==
    /\ running = FALSE /\ transcription_thread = None /\ runs = <<>>
    /\ join_started = 0 /\ join_target = 0
    /\ cap_pc = "none" /\ ui_pc = "idle"
    /\ last_detection_time = 0
    /\ stream = None /\ open_streams = 0 /\ frames = 0
    /\ bound_queue = None /\ audio_queue = <<>> /\ audio_buffer = <<>>
    /\ snapshots = <<>> /\ evicted = {} /\ ui_result = "none"
    /\ device_error = FALSE

\* vosk_model and whisper_model were both loaded by __init__
ModelsReady == models_loaded = TRUE

\* no pipeline run yet: VerseListener.__init__ and state_tracker's globals
NoRun == [transcript |-> "", before |-> None, prev |-> None,
          fast_ran |-> FALSE, slow_ran |-> FALSE, outcome |-> "none"]
PipeIdle ==
    /\ last_processed_transcript = None /\ last_confirmed = None
    /\ confirmations = <<>> /\ pipe = NoRun /\ ai_available = FALSE

NoCall == [pc |-> "idle"]
RetryIdle == slow_call = NoCall

\* what check_verse_queue leaves alone, and what the other handlers do
pollFrame == <<settings, now, detVars, dlgVars, lsnVars, streamVars,
               pipeVars, retryVars, capVars>>
uiFrame == <<pollFrame, pollVars>>

\* A pipeline run found a verse: verse_queue.put(...) and
\* verse_buffer.add_candidate(candidate).
PipelinePut(c) ==
    /\ Len(candidates) < MaxDetections
    /\ verse_queue' = Append(verse_queue, format_candidate_for_queue(c))
    /\ candidates' = Append(candidates, c)
    /\ UNCHANGED <<recent_detections, rejected_keys, confirmation_buffer,
                   live_history, confirmation_popup, ui_log>>
    /\ UNCHANGED uiFrame

\* VerseConfirmationPopup.__init__ as AppWindow calls it for verse_data v.
TkPopup(v, st, t) ==
    [cls |-> "TkVerseConfirmationPopup", verse_data |-> v, opened_at |-> t,
     timeout_s |-> st.auto_show_delay_seconds,
     auto_approve |-> st.auto_show_after_delay]

\* the path one call of AppWindow.check_verse_queue takes
PollPath ==
    IF IsSome(confirmation_popup) THEN "popup_open"
    ELSE IF verse_queue = <<>> THEN "empty"
    ELSE LET verse_data == Head(verse_queue)
             key == TupleKey(verse_data)
         IN IF verse_data.book = "" \/ verse_data.chapter = 0 \/ verse_data.verse = 0
            THEN "invalid"
            ELSE IF \/ IsDuplicate(recent_detections[key], verse_data.confidence, now)
                    \/ InRejected(key, rejected_keys)
                    \/ InBuffer(key, confirmation_buffer)
                    \/ InHistory(verse_data, live_history)
            THEN "suppressed"
            ELSE "routed"

\* a poll that returns early forgets to schedule the next one
C26MutExplicitAfter(path) == 0

\* the after(100, ...) before the early return, taken while a popup is open
ExplicitAfter(path) == IF path = "popup_open" THEN 1 ELSE 0

\* the after(100, ...) of the finally clause: every path that entered the try
FinallyAfter(path) == IF path = "popup_open" THEN 0 ELSE 1

\* the polls pending once the callback that was due has run
Rescheduled(path) == polls - 1 + ExplicitAfter(path) + FinallyAfter(path)

\* AppWindow.check_verse_queue while a popup is open or the queue is empty:
\* nothing is dequeued, the next poll is scheduled.
PollNoItem ==
    /\ polls > 0
    /\ PollPath \in {"popup_open", "empty"}
    /\ polls' = Rescheduled(PollPath)
    /\ UNCHANGED uiVars
    /\ UNCHANGED pollFrame

\* AppWindow.check_verse_queue with an item on the queue and no popup open.
CheckVerseQueue ==
    /\ polls > 0
    /\ polls' = Rescheduled(PollPath)
    /\ ~IsSome(confirmation_popup)
    /\ verse_queue # <<>>
    /\ LET verse_data == Head(verse_queue)
           key == TupleKey(verse_data)
           confidence == verse_data.confidence
           prev == recent_detections[key]
       IN /\ verse_queue' = Tail(verse_queue)
          /\ IF verse_data.book = "" \/ verse_data.chapter = 0 \/ verse_data.verse = 0
             THEN /\ ui_log' = Log("Invalid verse", key)
                  /\ UNCHANGED <<recent_detections, confirmation_buffer,
                                 live_history, confirmation_popup>>
             ELSE IF IsDuplicate(prev, confidence, now)
             THEN /\ ui_log' = Log("Skipping duplicate verse", key)
                  /\ UNCHANGED <<recent_detections, confirmation_buffer,
                                 live_history, confirmation_popup>>
             ELSE /\ ui_log' = IF IsSome(prev) /\ now - Val(prev).timestamp < DEBOUNCE_SECONDS
                               THEN Log("Replacing older detection", key)
                               ELSE ui_log
                  /\ recent_detections' =
                       [recent_detections EXCEPT ![key] =
                           Some([timestamp |-> now, confidence |-> confidence])]
                  /\ IF \/ InRejected(key, rejected_keys)
                        \/ InBuffer(key, confirmation_buffer)
                        \/ InHistory(verse_data, live_history)
                     THEN UNCHANGED <<confirmation_buffer, live_history,
                                      confirmation_popup>>
                     ELSE IF NeedsConfirmation(settings, confidence)
                     THEN LET v == [verse_data EXCEPT !.buffer_timestamp = now]
                          IN /\ confirmation_buffer' = Append(confirmation_buffer, v)
                             /\ confirmation_popup' = Some(TkPopup(v, settings, now))
                             /\ UNCHANGED live_history
                     ELSE /\ live_history' = Append(live_history, verse_data)
                          /\ UNCHANGED <<confirmation_buffer, confirmation_popup>>
    /\ UNCHANGED <<rejected_keys, candidates>>
    /\ UNCHANGED pollFrame

\* a callback that leaves the entry in the pending buffer
C30MutOnConfirmationResult(approved, verse_data) ==
    /\ confirmation_popup' = None
    /\ IF approved
       THEN /\ ui_log' = Log("Verse approved", get_verse_key(verse_data))
            /\ live_history' = Append(live_history, verse_data)
            /\ UNCHANGED rejected_keys
       ELSE /\ ui_log' = Log("Verse rejected", get_verse_key(verse_data))
            /\ rejected_keys' = rejected_keys \cup {get_verse_key(verse_data)}
            /\ UNCHANGED live_history
    /\ UNCHANGED <<verse_queue, recent_detections, candidates,
                   confirmation_buffer>>
    /\ UNCHANGED uiFrame

\* AppWindow._on_confirmation_result(approved, verse_data)
OnConfirmationResult(approved, verse_data) ==
    LET key_to_remove == get_verse_key(verse_data)
        Keep(v) == get_verse_key(v) # key_to_remove
    IN /\ confirmation_popup' = None
       /\ confirmation_buffer' = SelectSeq(confirmation_buffer, Keep)
       /\ IF approved
          THEN /\ ui_log' = Log("Verse approved", key_to_remove)
               /\ live_history' = Append(live_history, verse_data)
               /\ UNCHANGED rejected_keys
          ELSE /\ ui_log' = Log("Verse rejected", key_to_remove)
               /\ rejected_keys' = rejected_keys \cup {key_to_remove}
               /\ UNCHANGED live_history
       /\ UNCHANGED <<verse_queue, recent_detections, candidates>>
       /\ UNCHANGED uiFrame

\* VerseConfirmationPopup._approve (the user presses Approve)
PopupApprove ==
    /\ IsSome(confirmation_popup)
    /\ OnConfirmationResult(TRUE, Val(confirmation_popup).verse_data)

\* VerseConfirmationPopup._reject (the user presses Reject or closes the window)
PopupReject ==
    /\ IsSome(confirmation_popup)
    /\ OnConfirmationResult(FALSE, Val(confirmation_popup).verse_data)

\* _start_timer arms the timer only when _timeout_ms > 0
TkTimerDue(p, t) == p.timeout_s > 0 /\ t >= p.opened_at + p.timeout_s

\* _auto_process: callback(self._auto_approve_enabled, self.verse_data)
TkAutoOutcome(p) == p.auto_approve

\* VerseConfirmationPopup._auto_process (the timer fires)
PopupAutoProcess ==
    /\ IsSome(confirmation_popup)
    /\ TkTimerDue(Val(confirmation_popup), now)
    /\ OnConfirmationResult(TkAutoOutcome(Val(confirmation_popup)),
                            Val(confirmation_popup).verse_data)

\* AppWindow._queue_cleanup
QueueCleanup ==
    /\ LET Fresh(v) ==
            now - (IF v.buffer_timestamp = -1 THEN now ELSE v.buffer_timestamp)
                <= BUFFER_MAX_AGE
       IN confirmation_buffer' = SelectSeq(confirmation_buffer, Fresh)
    /\ UNCHANGED <<verse_queue, recent_detections, rejected_keys, live_history,
                   confirmation_popup, candidates, ui_log>>
    /\ UNCHANGED uiFrame

\* AppWindow._cleanup_recent_detections
CleanupRecentDetections ==
    /\ recent_detections' =
          [k \in UIKeys |->
              IF IsSome(recent_detections[k])
                 /\ Val(recent_detections[k]).timestamp > now - RECENT_MAX_AGE
              THEN recent_detections[k] ELSE None]
    /\ UNCHANGED <<verse_queue, rejected_keys, confirmation_buffer, live_history,
                   confirmation_popup, candidates, ui_log>>
    /\ UNCHANGED uiFrame

\* time passes
Tick ==
    /\ now + TimeStep <= MaxTime
    /\ now' = now + TimeStep
    /\ UNCHANGED <<settings, detVars, uiVars, dlgVars, lsnVars, streamVars,
                 pipeVars, retryVars, pollVars, capVars>>

\* the candidates a pipeline run can queue: the fast extractor's, and the slow
\* validator's that do not require review
UICandidates ==
    {FastCandidate("Jude", 1, n) : n \in UIVerses}
    \cup {SlowCandidate([chapter |-> 1, verse |-> n, certainty |-> sc], "Jude", "valid") :
             n \in UIVerses, sc \in Scores \ {95}}

InitUI ==
    /\ DetIdle /\ UIIdle /\ DlgIdle /\ LsnIdle /\ ModelsReady /\ PipeIdle /\ RetryIdle
    /\ settings \in SettingsChoices
    /\ now = 0

NextUI ==
    \/ \E c \in UICandidates : PipelinePut(c)
    \/ CheckVerseQueue
    \/ PollNoItem
    \/ PopupApprove
    \/ PopupReject
    \/ PopupAutoProcess
    \/ QueueCleanup
    \/ CleanupRecentDetections
    \/ Tick

SpecUI == InitUI /\ [][NextUI]_vars

InitDetectAll ==
    /\ InitDetect /\ UIIdle /\ DlgIdle /\ LsnIdle /\ ModelsReady /\ PipeIdle /\ RetryIdle
    /\ settings = DefaultSettings /\ now = 0

NextDetect == ExtractCandidate \/ ValidateWithGemini \/ ParseResponse

SpecDetect == InitDetectAll /\ [][NextDetect]_vars

(***************************************************************************)
(* SpecPopup: the confirmation dialogs, one open at a time.                *)
(*   TkVerseConfirmationPopup  the Tk dialog AppWindow opens               *)
(*   QtVerseConfirmationPopup  qt_ui.verse_confirmation_popup              *)
(*   UserConfirmPopup          qt_ui.components.user_confirm_popup         *)
(***************************************************************************)

MaxDialogs == 2
MaxPopupTime == 12

\* UserConfirmPopup.__init__: self.timeout_seconds = 8
USER_CONFIRM_TIMEOUT == 8

DialogVerse == format_candidate_for_queue(FastCandidate("Jude", 1, 1))

\* what a dialog reports when it closes
DialogResult(p, approved, by, t) ==
    [cls |-> p.cls, approved |-> approved, by |-> by, at |-> t,
     opened_at |-> p.opened_at]

Resolve(approved, by) ==
    /\ dialog_results' =
          Append(dialog_results, DialogResult(Val(dialog), approved, by, now))
    /\ dialog' = None

dlgFrame == <<settings, now, detVars, uiVars, lsnVars, streamVars,
                 pipeVars, retryVars, pollVars, capVars>>

\* AppWindow opens the Tk dialog with the settings' timeout and policy.
OpenTkPopup ==
    /\ ~IsSome(dialog)
    /\ Len(dialog_results) < MaxDialogs
    /\ dialog' = Some(TkPopup(DialogVerse, settings, now))
    /\ UNCHANGED <<dialog_results, dlgFrame>>

\* qt VerseConfirmationPopup.__init__(verse_data, timeout_duration_s,
\* auto_approve): seconds_left = timeout_duration_s, the timer starts with an
\* interval of 1 s, and _update_timer runs once at once.
OpenQtPopup ==
    /\ ~IsSome(dialog)
    /\ Len(dialog_results) < MaxDialogs
    /\ LET p == [cls |-> "QtVerseConfirmationPopup", verse_data |-> DialogVerse,
                 opened_at |-> now,
                 auto_approve |-> settings.auto_show_after_delay,
                 seconds_left |-> settings.auto_show_delay_seconds,
                 next_tick |-> now + 1]
       IN IF p.seconds_left > 0
          THEN /\ dialog' = Some([p EXCEPT !.seconds_left = @ - 1])
               /\ UNCHANGED dialog_results
          ELSE /\ dialog_results' =
                     Append(dialog_results,
                            DialogResult(p, p.auto_approve, "timeout", now))
               /\ dialog' = None
    /\ UNCHANGED dlgFrame

\* UserConfirmPopup.__init__(book, chapter, verse, callback): a single-shot
\* timer of timeout_seconds * 1000 ms connected to _reject
OpenUserConfirmPopup ==
    /\ ~IsSome(dialog)
    /\ Len(dialog_results) < MaxDialogs
    /\ dialog' = Some([cls |-> "UserConfirmPopup", verse_data |-> DialogVerse,
                       opened_at |-> now,
                       timeout_seconds |-> USER_CONFIRM_TIMEOUT])
    /\ UNCHANGED <<dialog_results, dlgFrame>>

\* _approve / accept / _accept: the user approves
DialogApprove ==
    /\ IsSome(dialog)
    /\ Resolve(TRUE, "user")
    /\ UNCHANGED dlgFrame

\* _reject / reject: the user rejects
DialogReject ==
    /\ IsSome(dialog)
    /\ Resolve(FALSE, "user")
    /\ UNCHANGED dlgFrame

\* Tk VerseConfirmationPopup._auto_process
TkAutoProcess ==
    /\ IsSome(dialog)
    /\ Val(dialog).cls = "TkVerseConfirmationPopup"
    /\ TkTimerDue(Val(dialog), now)
    /\ Resolve(TkAutoOutcome(Val(dialog)), "timeout")
    /\ UNCHANGED dlgFrame

\* qt VerseConfirmationPopup._update_timer, called by the 1 s timer
QtUpdateTimer ==
    /\ IsSome(dialog)
    /\ Val(dialog).cls = "QtVerseConfirmationPopup"
    /\ now >= Val(dialog).next_tick
    /\ IF Val(dialog).seconds_left > 0
       THEN /\ dialog' = Some([Val(dialog) EXCEPT !.seconds_left = @ - 1,
                                                  !.next_tick = @ + 1])
            /\ UNCHANGED dialog_results
       ELSE Resolve(Val(dialog).auto_approve, "timeout")
    /\ UNCHANGED dlgFrame

\* UserConfirmPopup: the single-shot timer fires and calls _reject
UserConfirmTimeout ==
    /\ IsSome(dialog)
    /\ Val(dialog).cls = "UserConfirmPopup"
    /\ now >= Val(dialog).opened_at + Val(dialog).timeout_seconds
    /\ Resolve(FALSE, "timeout")
    /\ UNCHANGED dlgFrame

\* one second passes
TickSecond ==
    /\ now < MaxPopupTime
    /\ now' = now + 1
    /\ UNCHANGED <<settings, detVars, uiVars, dlgVars, lsnVars, streamVars,
                 pipeVars, retryVars, pollVars, capVars>>

\* the dialogs read the timeout and the policy only
PopupSettings ==
    {st \in SettingsChoices : st.require_approval /\ st.confidence_threshold = 96}

InitPopup ==
    /\ DetIdle /\ UIIdle /\ DlgIdle /\ LsnIdle /\ ModelsReady /\ PipeIdle /\ RetryIdle
    /\ settings \in PopupSettings
    /\ now = 0

NextPopup ==
    \/ OpenTkPopup
    \/ OpenQtPopup
    \/ OpenUserConfirmPopup
    \/ DialogApprove
    \/ DialogReject
    \/ TkAutoProcess
    \/ QtUpdateTimer
    \/ UserConfirmTimeout
    \/ TickSecond

SpecPopup == InitPopup /\ [][NextPopup]_vars

(***************************************************************************)
(* SpecListener: VerseListener's threads.                                  *)
(*   the UI thread       start_listening, stop_listening,                  *)
(*                       process_manual_transcript                         *)
(*   the capture thread  _run and _trigger_transcription_if_needed         *)
(*   the runs            _transcribe_and_process (started by the trigger)  *)
(*                       _process_transcript_logic (started manually)      *)
(* transcription_thread is None or the index in runs of the thread the     *)
(* handle refers to.                                                       *)
(***************************************************************************)

COOLDOWN_SECONDS == 3
LISTENER_JOIN_TIMEOUT == 5
TRANSCRIPTION_JOIN_TIMEOUT == 10

MaxRuns == 3
MaxStreams == 1
MaxListenTime == 30
MaxFrames == 3
\* the deque's maxlen, int(SAMPLE_RATE * AUDIO_BUFFER_SECONDS / 512), scaled down
AudioBufferMax == 2

\* threading.Thread.is_alive() of run h
IsAlive(h) == runs[h].pc # "dead"

\* time.time() - self.last_detection_time < COOLDOWN_SECONDS: return
AfterCooldown ==
    IF now - last_detection_time < COOLDOWN_SECONDS THEN "loop" ELSE "trig_start"

\* threading.Thread(target=...) followed by .start(); "at" notes when the
\* capture loop's trigger started the thread
StartRun(kind) ==
    /\ Len(runs) < MaxRuns
    /\ runs' = Append(runs, [kind |-> kind, pc |-> "started",
                             at |-> IF kind = "whisper" THEN now ELSE 0])
    /\ transcription_thread' = Some(Len(runs) + 1)

lsnFrame == <<settings, detVars, uiVars, dlgVars, frames, last_confirmed,
              confirmations, pipe, ai_available, retryVars, pollVars, capVars>>

\* VerseListener.start_listening: the event is set, the listener thread
\* started and last_processed_transcript reset
StartListening ==
    /\ ui_pc = "idle"
    /\ ~running
    /\ cap_pc \in {"none", "exited"}
    /\ running' = TRUE
    /\ cap_pc' = "open"
    /\ last_processed_transcript' = None
    /\ UNCHANGED <<transcription_thread, runs, join_started, join_target, ui_pc,
                   last_detection_time, now, lsnFrame, stream, open_streams>>

\* _run: self._stream = sd.InputStream(...) and self._stream.start(); if
\* the device cannot be opened the exception ends the thread
CaptureOpen ==
    /\ cap_pc = "open"
    /\ \/ /\ open_streams < MaxStreams
          /\ stream' = Some("InputStream")
          /\ open_streams' = open_streams + 1
          /\ cap_pc' = "loop"
          /\ UNCHANGED device_error
       \/ /\ cap_pc' = "exited"
          /\ device_error' = TRUE
          /\ UNCHANGED <<stream, open_streams>>
    /\ UNCHANGED <<running, transcription_thread, runs, join_started,
                   join_target, ui_pc, last_detection_time, now,
                   last_processed_transcript>>
    /\ UNCHANGED <<settings, detVars, uiVars, dlgVars, frames, last_confirmed,
                   confirmations, pipe, ai_available, retryVars, pollVars>>
    /\ UNCHANGED <<models_loaded, bound_queue, audio_queue, audio_buffer,
                   snapshots, evicted, ui_result>>

\* collections.deque(maxlen=...).append: at maxlen the oldest entry is dropped
DequeAppend(d, x) ==
    IF Len(d) < AudioBufferMax THEN Append(d, x) ELSE Append(Tail(d), x)

\* the entry an append drops
DequeDropped(d) == IF Len(d) < AudioBufferMax THEN {} ELSE {Head(d)}

\* _audio_callback: a started stream delivers a block (frame number
\* frames + 1), which is appended to audio_buffer and put on _audio_queue
AudioCallback ==
    /\ open_streams > 0
    /\ frames < MaxFrames
    /\ frames' = frames + 1
    /\ audio_buffer' = DequeAppend(audio_buffer, frames + 1)
    /\ evicted' = evicted \cup DequeDropped(audio_buffer)
    /\ audio_queue' = Append(audio_queue, frames + 1)
    /\ UNCHANGED <<models_loaded, bound_queue, snapshots, ui_result,
                   device_error>>
    /\ UNCHANGED <<settings, now, detVars, uiVars, dlgVars, lsnVars, stream,
                   open_streams, pipeVars, retryVars, pollVars>>

\* _run: an utterance is recognised and _trigger_transcription_if_needed
\* reads the handle ("if self._transcription_thread and ...").
CaptureUtterance ==
    /\ cap_pc = "loop"
    /\ running
    /\ cap_pc' = IF IsSome(transcription_thread) THEN "trig_is_alive"
                 ELSE AfterCooldown
    /\ UNCHANGED <<running, transcription_thread, runs, join_started,
                   join_target, ui_pc, last_detection_time, now, lsnFrame,
                   stream, open_streams, last_processed_transcript>>

\* "... self._transcription_thread.is_alive()": the handle is read again; if
\* it was cleared meanwhile the AttributeError ends _run's loop.
TriggerIsAlive ==
    /\ cap_pc = "trig_is_alive"
    /\ cap_pc' = IF ~IsSome(transcription_thread) THEN "exited"
                 ELSE IF IsAlive(Val(transcription_thread)) THEN "loop"
                 ELSE AfterCooldown
    /\ UNCHANGED <<running, transcription_thread, runs, join_started,
                   join_target, ui_pc, last_detection_time, now, lsnFrame,
                   stream, open_streams, last_processed_transcript>>

\* _trigger_transcription_if_needed: the thread is created and started
TriggerStart ==
    /\ cap_pc = "trig_start"
    /\ StartRun("whisper")
    /\ cap_pc' = "loop"
    /\ UNCHANGED <<running, join_started, join_target, ui_pc,
                   last_detection_time, now, lsnFrame,
                   stream, open_streams, last_processed_transcript>>

\* _run: the loop sees the cleared event or the None sentinel and exits
CaptureExit ==
    /\ cap_pc = "loop"
    /\ ~running
    /\ cap_pc' = "exited"
    /\ UNCHANGED <<running, transcription_thread, runs, join_started,
                   join_target, ui_pc, last_detection_time, now, lsnFrame,
                   stream, open_streams, last_processed_transcript>>

\* process_manual_transcript: the first read of the handle
ManualSubmit ==
    /\ ui_pc = "idle"
    /\ ui_pc' = IF IsSome(transcription_thread) THEN "manual_is_alive"
                ELSE "manual_start"
    /\ UNCHANGED <<running, transcription_thread, runs, join_started,
                   join_target, cap_pc, last_detection_time, now, lsnFrame,
                   stream, open_streams, last_processed_transcript>>

\* process_manual_transcript: the second read and is_alive(); a cleared
\* handle raises AttributeError and the submission is lost
ManualIsAlive ==
    /\ ui_pc = "manual_is_alive"
    /\ ui_pc' = IF ~IsSome(transcription_thread) THEN "idle"
                ELSE IF IsAlive(Val(transcription_thread)) THEN "idle"
                ELSE "manual_start"
    /\ UNCHANGED <<running, transcription_thread, runs, join_started,
                   join_target, cap_pc, last_detection_time, now, lsnFrame,
                   stream, open_streams, last_processed_transcript>>

\* process_manual_transcript: the thread is created and started
ManualStart ==
    /\ ui_pc = "manual_start"
    /\ StartRun("manual")
    /\ ui_pc' = "idle"
    /\ UNCHANGED <<running, join_started, join_target, cap_pc,
                   last_detection_time, now, lsnFrame,
                   stream, open_streams, last_processed_transcript>>

\* a started thread begins its target; _transcribe_and_process first sets
\* last_detection_time
RunBegin(i) ==
    /\ runs[i].pc = "started"
    /\ runs' = [runs EXCEPT ![i].pc = "running"]
    /\ last_detection_time' =
          IF runs[i].kind = "whisper" THEN now ELSE last_detection_time
    /\ UNCHANGED <<running, transcription_thread, join_started, join_target,
                   cap_pc, ui_pc, now, lsnFrame,
                   stream, open_streams, last_processed_transcript>>

\* the target returns; _transcribe_and_process's finally clears the handle,
\* _process_transcript_logic (the manual target) does not
RunFinish(i) ==
    /\ runs[i].pc = "running"
    /\ runs' = [runs EXCEPT ![i].pc = "dead"]
    /\ transcription_thread' =
          IF runs[i].kind = "whisper" THEN None ELSE transcription_thread
    /\ UNCHANGED <<running, join_started, join_target, cap_pc, ui_pc,
                   last_detection_time, now, lsnFrame,
                   stream, open_streams, last_processed_transcript>>

\* stop_listening: the event is cleared, the stream stopped and closed "if
\* self._stream", the sentinel queued, and the join of the listener thread
\* begins
StopBegin ==
    /\ ui_pc = "idle"
    /\ running
    /\ running' = FALSE
    /\ open_streams' = IF IsSome(stream) THEN open_streams - 1 ELSE open_streams
    /\ ui_pc' = "stop_join_listener"
    /\ join_started' = now
    /\ UNCHANGED <<transcription_thread, runs, join_target, cap_pc,
                   last_detection_time, now, lsnFrame,
                   stream, last_processed_transcript>>

\* _listener_thread.join(timeout=5) returns; then the first read of
\* "if self._transcription_thread and self._transcription_thread.is_alive()"
StopJoinListener ==
    /\ ui_pc = "stop_join_listener"
    /\ \/ cap_pc \in {"none", "exited"}
       \/ now >= join_started + LISTENER_JOIN_TIMEOUT
    /\ ui_pc' = IF IsSome(transcription_thread) THEN "stop_is_alive"
                ELSE "stop_finish"
    /\ UNCHANGED <<running, transcription_thread, runs, join_started,
                   join_target, cap_pc, last_detection_time, now, lsnFrame,
                   stream, open_streams, last_processed_transcript>>

\* "... self._transcription_thread.is_alive()": the handle is read again; if
\* the run cleared it meanwhile, the AttributeError leaves stop_listening
\* before it resets its handles
StopIsAlive ==
    /\ ui_pc = "stop_is_alive"
    /\ IF ~IsSome(transcription_thread)
       THEN /\ ui_pc' = "idle"
            /\ UNCHANGED <<join_target, join_started>>
       ELSE IF IsAlive(Val(transcription_thread))
       THEN /\ ui_pc' = "stop_join_transcription"
            /\ join_target' = Val(transcription_thread)
            /\ join_started' = now
       ELSE /\ ui_pc' = "stop_finish"
            /\ UNCHANGED <<join_target, join_started>>
    /\ UNCHANGED <<running, transcription_thread, runs, cap_pc,
                   last_detection_time, now, lsnFrame,
                   stream, open_streams, last_processed_transcript>>

\* a join that has no timeout
C17MutStopJoinTranscription ==
    /\ ui_pc = "stop_join_transcription"
    /\ ~IsAlive(join_target)
    /\ ui_pc' = "stop_finish"
    /\ UNCHANGED <<running, transcription_thread, runs, join_started,
                   join_target, cap_pc, last_detection_time, now, lsnFrame,
                   stream, open_streams, last_processed_transcript>>

\* _transcription_thread.join(timeout=10) returns
StopJoinTranscription ==
    /\ ui_pc = "stop_join_transcription"
    /\ \/ ~IsAlive(join_target)
       \/ now >= join_started + TRANSCRIPTION_JOIN_TIMEOUT
    /\ ui_pc' = "stop_finish"
    /\ UNCHANGED <<running, transcription_thread, runs, join_started,
                   join_target, cap_pc, last_detection_time, now, lsnFrame,
                   stream, open_streams, last_processed_transcript>>

\* stop_listening: self._stream = None, self._transcription_thread = None
StopFinish ==
    /\ ui_pc = "stop_finish"
    /\ stream' = None
    /\ transcription_thread' = None
    /\ ui_pc' = "idle"
    /\ UNCHANGED <<running, runs, join_started, join_target, cap_pc,
                   last_detection_time, now, lsnFrame,
                   open_streams, last_processed_transcript>>

\* time.time() is far above the initial last_detection_time of 0
InitListener ==
    /\ DetIdle /\ UIIdle /\ DlgIdle /\ LsnIdle /\ ModelsReady /\ PipeIdle /\ RetryIdle
    /\ settings = DefaultSettings
    /\ now = TimeStep

\* time passes while the threads run, up to the horizon of the listener
ListenerTick == now + TimeStep <= MaxListenTime /\ Tick

NextListener ==
    \/ StartListening
    \/ CaptureOpen
    \/ CaptureUtterance
    \/ TriggerIsAlive
    \/ TriggerStart
    \/ CaptureExit
    \/ ManualSubmit
    \/ ManualIsAlive
    \/ ManualStart
    \/ \E i \in 1..Len(runs) : RunBegin(i)
    \/ \E i \in 1..Len(runs) : RunFinish(i)
    \/ StopBegin
    \/ StopJoinListener
    \/ StopIsAlive
    \/ StopJoinTranscription
    \/ StopFinish
    \/ ListenerTick

SpecListener == InitListener /\ [][NextListener]_vars

(***************************************************************************)
(* Properties of the listener (SpecListener)                               *)
(***************************************************************************)

\* the runs that have started and not finished
Executing == {i \in 1..Len(runs) : runs[i].pc = "running"}

\* C2: at every moment at most one transcription+extraction run is
\* executing, whether the trigger or the manual entry point started it.
C2_AtMostOneRun == Cardinality(Executing) <= 1

(***************************************************************************)
(* Properties of the extractors (SpecDetect)                               *)
(***************************************************************************)

\* a reference of the catalog
ValidTriple(book, chapter, verse) ==
    /\ book \in CatalogBooks
    /\ 1 <= chapter /\ chapter <= BOOK_TO_NUM_CHAPTERS[book]
    /\ 1 <= verse /\ verse <= VerseCount(book, chapter)

\* C3: every candidate the slow validator marks 'valid' has its chapter
\* within 1..max_chapter(book) and its verse within 1..max_verse(book, chapter).
C3_ValidMeansInRange ==
    \A i \in 1..Len(sv_out) :
        sv_out[i].validation_status = "valid"
            => ValidTriple(sv_out[i].book, sv_out[i].chapter, sv_out[i].verse)

\* pattern i matched and its groups name a reference of the catalog
MatchIsValid(i) ==
    /\ IsSome(fx_in[i])
    /\ LET m == Val(fx_in[i])
           ch == normalize_number(m.chapter)
           vs == normalize_number(m.verse)
       IN /\ IsSome(ch) /\ IsSome(vs)
          /\ ValidTriple(ResolveAlias(Title(m.book)), Val(ch), Val(vs))

ValidMatches == {i \in 1..NumPatterns : MatchIsValid(i)}

\* C4: extract_candidate returns only references of the catalog; it returns
\* the reference of the first pattern whose match is valid, skipping the
\* invalid matches before it, and none when no pattern's match is valid.
C4_FastOnlyValid ==
    det_pc = "fast_done" =>
        IF ValidMatches = {}
        THEN fx_out = None
        ELSE LET i == CHOOSE j \in ValidMatches : \A k \in ValidMatches : j <= k
                 m == Val(fx_in[i])
             IN /\ IsSome(fx_out)
                /\ ValidTriple(Val(fx_out).book, Val(fx_out).chapter,
                               Val(fx_out).verse)
                /\ Val(fx_out).book = ResolveAlias(Title(m.book))
                /\ Val(fx_out).chapter = Val(normalize_number(m.chapter))
                /\ Val(fx_out).verse = Val(normalize_number(m.verse))

\* the first pattern matched chapter 999 of Exodus, was skipped, and a later
\* pattern gave the candidate
C4_Witness ==
    /\ det_pc = "fast_done"
    /\ IsSome(fx_in[1])
    /\ Val(fx_in[1]).book = "exodus" /\ Val(fx_in[1]).chapter = Digits(999)
    /\ IsSome(fx_out)

\* the items of the payload whose book is not in the catalog
UnknownBookItems ==
    {i \in 1..Len(sv_in.items) : Title(sv_in.items[i].book) \notin CatalogBooks}

\* C5: no item naming a book absent from the catalog becomes a candidate:
\* the validator returns none for it, nothing of it is routed to the queue or
\* to a confirmation event, and a payload of only such items gives nothing.
C5_UnknownBookNeverCandidate ==
    det_pc = "slow_done" =>
        /\ \A i \in 1..Len(sv_out) : sv_out[i].book \in CatalogBooks
        /\ Len(sv_out) <= Len(sv_in.items) - Cardinality(UnknownBookItems)
        /\ \A i \in 1..Len(SlowPathRouted(sv_out)) :
               SlowPathRouted(sv_out)[i].book \in CatalogBooks
        /\ (Cardinality(UnknownBookItems) = Len(sv_in.items)) => sv_out = <<>>

\* a payload with one complete item of an unknown book and one item of a
\* known book gave the known book's candidate only
C5_Witness ==
    /\ det_pc = "slow_done"
    /\ Len(sv_in.items) = 2
    /\ \E i \in 1..2 : /\ sv_in.items[i].book = "Maccabees"
                        /\ sv_in.items[i].chapter = 1
                        /\ sv_in.items[i].verse = 1
    /\ Len(sv_out) = 1

(***************************************************************************)
(* Properties of the dialogs (SpecPopup)                                   *)
(***************************************************************************)

\* C9: a dialog that times out resolves to the configured auto-approve
\* policy, and not before the configured timeout has passed, whichever
\* dialog it is.
C9_TimeoutFollowsPolicy ==
    \A i \in 1..Len(dialog_results) :
        dialog_results[i].by = "timeout" =>
            /\ dialog_results[i].approved = settings.auto_show_after_delay
            /\ dialog_results[i].at >=
                  dialog_results[i].opened_at + settings.auto_show_delay_seconds

(***************************************************************************)
(* Properties of the consumer (SpecUI)                                     *)
(***************************************************************************)

\* a step of check_verse_queue that takes an item from the queue
Polled == verse_queue # <<>> /\ verse_queue' = Tail(verse_queue)

\* the candidate whose queue item is at the head of the queue
HeadCandidate == candidates[Len(candidates) - Len(verse_queue) + 1]

\* the number of live entries whose key is k
LiveCount(history, k) ==
    Cardinality({i \in 1..Len(history) : get_verse_key(history[i]) = k})

\* C1: once a key is in the rejected set, no later step adds a live-history
\* entry for that key.
C1_RejectedNeverAccepted ==
    [][\A k \in rejected_keys :
          LiveCount(live_history', k) <= LiveCount(live_history, k)]_vars

\* the detection taken from the queue is inside the debounce window of its
\* key and its confidence is not above the stored one
C6Case ==
    /\ Polled
    /\ LET v == Head(verse_queue)
           prev == recent_detections[TupleKey(v)]
       IN /\ IsSome(prev)
          /\ now - Val(prev).timestamp < 15
          /\ v.confidence <= Val(prev).confidence

\* C6: a detection inside the 15 s window of its key with a confidence less
\* than or equal to the stored one is dropped: the recent-detection map, the
\* pending buffer, the live history and the popup are all left as they were.
C6_DuplicateDropped ==
    [][C6Case => UNCHANGED <<recent_detections, confirmation_buffer,
                             live_history, confirmation_popup>>]_vars

\* a duplicate has just been dropped and the stored detection is still there
C6_Witness ==
    /\ ui_log.msg = "Skipping duplicate verse"
    /\ IsSome(recent_detections[ui_log.key])
    /\ now - Val(recent_detections[ui_log.key]).timestamp < 15

\* the detection taken from the queue is inside the debounce window of its
\* key and its confidence is strictly above the stored one
C7Case ==
    /\ Polled
    /\ LET v == Head(verse_queue)
           prev == recent_detections[TupleKey(v)]
       IN /\ IsSome(prev)
          /\ now - Val(prev).timestamp < 15
          /\ v.confidence > Val(prev).confidence

C7OneEntryPerKey ==
    \A n \in UIVerses :
        LiveCount(live_history,
                  get_verse_key([book |-> "Jude", chapter |-> 1, verse |-> n])) <= 1

\* C7: a detection inside the window with a strictly higher confidence
\* replaces the stored confidence, and the live history never holds two
\* entries for one (book, chapter, verse) key.
C7_HigherConfidenceReplaces ==
    /\ []C7OneEntryPerKey
    /\ [][C7Case =>
            recent_detections'[TupleKey(Head(verse_queue))] =
                Some([timestamp |-> now,
                      confidence |-> Head(verse_queue).confidence])]_vars

\* a higher-confidence detection of a key already live has just replaced the
\* stored confidence, and the key is live once
C7_Witness ==
    /\ ui_log.msg = "Replacing older detection"
    /\ Val(recent_detections[ui_log.key]).confidence = 9500
    /\ LiveCount(live_history, get_verse_key(ui_log.key)) = 1

\* C8: a detection that is routed goes to confirmation exactly when
\* require_approval is set and the candidate's confidence is below the
\* configured threshold, and is accepted directly otherwise.
C8_ConfirmationGate ==
    [][(Polled /\ (live_history' # live_history
                   \/ confirmation_popup' # confirmation_popup))
         => ((confirmation_popup' # None)
               <=> (/\ settings.require_approval
                    /\ HeadCandidate.confidence_score
                          < settings.confidence_threshold))]_vars

\* C10: when a key is rejected it leaves the pending buffer, nothing is
\* output, and the candidate of that key is marked discarded.
C10_RejectedIsDiscarded ==
    [][\A k \in rejected_keys' \ rejected_keys :
          /\ \A i \in 1..Len(confirmation_buffer') :
                 get_verse_key(confirmation_buffer'[i]) # k
          /\ live_history' = live_history
          /\ \E i \in 1..Len(candidates') :
                 /\ get_verse_key(candidates'[i]) = k
                 /\ candidates'[i].status = "discarded"]_vars

\* C11: when a confirmation resolves to approved, the verse is added to the
\* live history exactly once and the candidate of that key is marked live.
C11_ApprovedIsLive ==
    [][(confirmation_popup # None /\ confirmation_popup' = None
          /\ rejected_keys' = rejected_keys)
         => LET v == Val(confirmation_popup).verse_data
                k == get_verse_key(v)
            IN /\ live_history' = Append(live_history, v)
               /\ LiveCount(live_history', k) = 1
               /\ \E i \in 1..Len(candidates') :
                      /\ get_verse_key(candidates'[i]) = k
                      /\ candidates'[i].status = "live"]_vars

(***************************************************************************)
(* VerseBuffer (app/core/verse_buffer.py): the candidate list and the      *)
(* three operations that change it.                                        *)
(***************************************************************************)
MaxBuffer == 3

\* VerseCandidate.__init__: a fresh id, status "pending" by default
VerseCandidate(id, c) == [id |-> id] @@ c

\* the ids a caller can pass: those handed out so far, and one never handed out
CandidateIds == 1..(MaxBuffer + 1)

\* the loop of promote_to_live / discard: every candidate with this id gets
\* the new status, whatever its status was
SetStatus(buffer, candidate_id, status) ==
    [i \in 1..Len(buffer) |->
        IF buffer[i].id = candidate_id
        THEN [buffer[i] EXCEPT !.status = status]
        ELSE buffer[i]]

bufFrame == <<detVars, verse_queue, recent_detections, rejected_keys,
              confirmation_buffer, live_history, confirmation_popup, ui_log,
              settings, now, dlgVars, lsnVars, streamVars,
                 pipeVars, retryVars, pollVars, capVars>>

\* VerseBuffer.add_candidate
add_candidate(c) ==
    /\ Len(candidates) < MaxBuffer
    /\ candidates' = Append(candidates, VerseCandidate(Len(candidates) + 1, c))
    /\ UNCHANGED bufFrame

\* VerseBuffer.promote_to_live
promote_to_live(candidate_id) ==
    /\ candidates' = SetStatus(candidates, candidate_id, "live")
    /\ UNCHANGED bufFrame

\* VerseBuffer.discard
discard(candidate_id) ==
    /\ candidates' = SetStatus(candidates, candidate_id, "discarded")
    /\ UNCHANGED bufFrame

InitBuffer ==
    /\ DetIdle /\ UIIdle /\ DlgIdle /\ LsnIdle /\ ModelsReady /\ PipeIdle /\ RetryIdle
    /\ settings = DefaultSettings /\ now = 0

NextBuffer ==
    \/ \E c \in UICandidates : add_candidate(c)
    \/ \E id \in CandidateIds : promote_to_live(id)
    \/ \E id \in CandidateIds : discard(id)

SpecBuffer == InitBuffer /\ [][NextBuffer]_vars

\* C12: a candidate's status only moves from pending to live or from pending
\* to discarded: once live it stays live, once discarded it stays discarded.
C12_StatusOnlyForward ==
    [][\A i \in 1..Len(candidates) :
          /\ candidates[i].status = "live" => candidates'[i].status = "live"
          /\ candidates[i].status = "discarded"
                => candidates'[i].status = "discarded"]_vars

\* C20: a slow-validator item with a known book and a chapter above the
\* book's chapter count is kept as a candidate marked "invalid_chapter", and
\* that candidate is routed on (queue or confirmation event) for review.
C20_InvalidChapterReviewed ==
    det_pc = "slow_done" =>
        \A i \in 1..Len(sv_in.items) :
            LET item == sv_in.items[i]
                book == Title(item.book)
            IN (/\ sv_in.kind # "marker"
                /\ book \in CatalogBooks
                /\ item.chapter > BOOK_TO_NUM_CHAPTERS[book]
                /\ item.verse # 0)
               => /\ \E j \in 1..Len(sv_out) :
                        /\ sv_out[j].book = book
                        /\ sv_out[j].chapter = item.chapter
                        /\ sv_out[j].validation_status = "invalid_chapter"
                  /\ \E j \in 1..Len(SlowPathRouted(sv_out)) :
                        /\ SlowPathRouted(sv_out)[j].book = book
                        /\ SlowPathRouted(sv_out)[j].chapter = item.chapter

(***************************************************************************)
(* SpecStream: the input stream across start_listening / stop_listening,   *)
(* with the capture thread opening it and the device delivering frames.    *)
(***************************************************************************)
NextStream ==
    \/ StartListening
    \/ CaptureOpen
    \/ CaptureExit
    \/ AudioCallback
    \/ StopBegin
    \/ StopJoinListener
    \/ StopFinish
    \/ Tick

SpecStream == InitListener /\ [][NextStream]_vars

\* C16: once stop_listening has returned, no input stream is left started
\* and no further audio frame is accepted.
C16_StoppedMeansClosed ==
    [][(~running /\ ui_pc = "idle")
          => (open_streams = 0 /\ frames' = frames)]_vars

\* the runs the capture loop's trigger started
Triggers == {i \in 1..Len(runs) : runs[i].kind = "whisper"}

\* C15: any two triggers of the capture loop are at least the cooldown
\* (3 seconds) apart.
C15_TriggersCooldownApart ==
    \A i, j \in Triggers :
        i < j => runs[j].at - runs[i].at >= COOLDOWN_SECONDS

(***************************************************************************)
(* SpecPipeline: VerseListener._process_transcript_logic, one call after   *)
(* the other, across start_listening / stop_listening.                     *)
(***************************************************************************)

\* the parameters of validate_with_gemini, and the arguments the listener
\* passes (the transcript positionally, the others by keyword)
ValidateParams == {"transcript", "context", "last_book", "last_chapter"}
ListenerCallArgs ==
    {"transcript", "api_key", "model_id", "last_book", "last_chapter"}

\* Python binds a call: a keyword that names no parameter is a TypeError
CallBinds(args, params) == args \subseteq params

\* a transcript: its text and what the three patterns match in it
FastMatch(book, ch, vs) ==
    <<Some([book |-> book, chapter |-> Digits(ch), verse |-> Digits(vs)]),
      None, None>>
PipeTranscripts ==
    {[text |-> "", matches |-> NoMatches],
     [text |-> "exodus 1:1", matches |-> FastMatch("exodus", 1, 1)],
     [text |-> "exodus 2:1", matches |-> FastMatch("exodus", 2, 1)],
     [text |-> "jude wrote", matches |-> NoMatches]}

\* what the LLM can answer for a transcript
PipePayloads ==
    {NoPayload}
    \cup {[kind |-> "object",
           items |-> <<[book |-> "jude", chapter |-> 1, verse |-> 1,
                        certainty |-> sc]>>] : sc \in {50, 80}}

\* what a call did: its transcript, the transcript of the call before it,
\* the last_processed_transcript it read, which extractors ran, the outcome
RunRecord(t, prev, fast, slow, outcome) ==
    [transcript |-> t.text,
     before |-> IF pipe.outcome = "none" THEN None ELSE Some(pipe.transcript),
     prev |-> prev, fast_ran |-> fast, slow_ran |-> slow, outcome |-> outcome]

\* a test that never finds a repeat
C14MutIsRepeat(t, prev) == FALSE

\* "if transcript and transcript == self.last_processed_transcript"
IsRepeat(t, prev) == t.text # "" /\ Some(t.text) = prev

\* the candidates of the loop that take the branch "if
\* candidate.review_required" (emit) and those that take the else (put)
NeedsReview(c) == c.review_required
NoReview(c) == ~c.review_required

RECURSIVE FormatAll(_)
FormatAll(cs) ==
    IF cs = <<>> THEN <<>>
    ELSE <<format_candidate_for_queue(Head(cs))>> \o FormatAll(Tail(cs))

\* _process_transcript_logic(transcript); payload is what the LLM would
\* answer if it were asked
ProcessTranscript(t, payload) ==
    LET prev == last_processed_transcript
        c == extract_candidate(t.matches)
        routed == SlowPathRouted(validate_with_gemini(payload))
    IN IF IsRepeat(t, prev)
       THEN /\ pipe' = RunRecord(t, prev, FALSE, FALSE, "skipped")
            /\ UNCHANGED <<last_processed_transcript, verse_queue, candidates,
                           last_confirmed, confirmations>>
       ELSE /\ last_processed_transcript' = Some(t.text)
            /\ IF IsSome(c)
               THEN /\ Len(candidates) < MaxDetections
                    /\ verse_queue' =
                          Append(verse_queue, format_candidate_for_queue(Val(c)))
                    /\ candidates' = Append(candidates, Val(c))
                    /\ pipe' = RunRecord(t, prev, TRUE, FALSE, "queued")
                    /\ UNCHANGED <<last_confirmed, confirmations>>
               ELSE IF ~ai_available
               THEN /\ pipe' = RunRecord(t, prev, TRUE, FALSE, "nothing")
                    /\ UNCHANGED <<verse_queue, candidates, last_confirmed,
                                   confirmations>>
               ELSE IF ~CallBinds(ListenerCallArgs, ValidateParams)
               THEN /\ pipe' = RunRecord(t, prev, TRUE, FALSE, "TypeError")
                    /\ UNCHANGED <<verse_queue, candidates, last_confirmed,
                                   confirmations>>
               ELSE /\ Len(candidates) + Len(routed) <= MaxDetections
                    /\ last_confirmed' =
                          IF routed = <<>> THEN last_confirmed
                          ELSE Some(<<routed[Len(routed)].book,
                                      routed[Len(routed)].chapter>>)
                    /\ candidates' = candidates \o routed
                    /\ confirmations' =
                          confirmations \o FormatAll(SelectSeq(routed, NeedsReview))
                    /\ verse_queue' =
                          verse_queue \o FormatAll(SelectSeq(routed, NoReview))
                    /\ pipe' = RunRecord(t, prev, TRUE, TRUE,
                                  IF routed = <<>> THEN "nothing" ELSE "routed")

pipeFrame == <<detVars, recent_detections, rejected_keys, confirmation_buffer,
               live_history, confirmation_popup, ui_log, settings, now,
               dlgVars, lsnVars, streamVars, ai_available, retryVars, pollVars, capVars>>

\* a transcription thread (audio) or a manual thread runs the pipeline
RunPipeline ==
    \E t \in PipeTranscripts, payload \in PipePayloads :
        /\ ProcessTranscript(t, payload)
        /\ UNCHANGED pipeFrame

InitPipeline ==
    /\ DetIdle /\ UIIdle /\ DlgIdle /\ LsnIdle /\ ModelsReady /\ RetryIdle
    /\ last_processed_transcript = None /\ last_confirmed = None
    /\ confirmations = <<>> /\ pipe = NoRun
    /\ ai_available \in BOOLEAN
    /\ settings = DefaultSettings
    /\ now = TimeStep

NextPipeline ==
    \/ RunPipeline
    \/ StartListening
    \/ CaptureOpen
    \/ CaptureExit
    \/ StopBegin
    \/ StopJoinListener
    \/ StopFinish

SpecPipeline == InitPipeline /\ [][NextPipeline]_vars

\* C13: the last confirmed context is the (book, chapter) of the candidate
\* accepted last (pushed to the output queue), and unset if there is none.
C13_ContextIsLastAccepted ==
    last_confirmed =
        IF verse_queue = <<>> THEN None
        ELSE Some(<<verse_queue[Len(verse_queue)].book,
                    verse_queue[Len(verse_queue)].chapter>>)

\* C14 as stated: a transcript identical to the one of the call immediately
\* before is discarded before extraction: neither extractor runs for it and
\* nothing is queued or emitted.
C14_RepeatIsDiscarded ==
    pipe.before = Some(pipe.transcript)
        => ~pipe.fast_ran /\ ~pipe.slow_ran /\ pipe.outcome = "skipped"

\* C14: a non-empty transcript equal to last_processed_transcript (the
\* transcript of the call before it, unless start_listening reset it
\* in between) is discarded before extraction: neither extractor runs for
\* it and nothing is queued, buffered or emitted.
C14_NonEmptyRepeatIsDiscarded ==
    /\ []((pipe.transcript # "" /\ pipe.prev = Some(pipe.transcript))
            => ~pipe.fast_ran /\ ~pipe.slow_ran /\ pipe.outcome = "skipped")
    /\ [][(pipe'.outcome = "skipped" /\ pipe' # pipe)
            => UNCHANGED <<verse_queue, candidates, confirmations,
                           last_confirmed, last_processed_transcript>>]_vars

\* "exodus 1:1" was queued by one call and discarded at the next
C14_Witness ==
    /\ pipe.outcome = "skipped"
    /\ pipe.transcript = "exodus 1:1"
    /\ pipe.before = Some("exodus 1:1")
    /\ Len(verse_queue) = 1

(***************************************************************************)
(* SpecStop: stop_listening while runs are in flight.  The UI thread is    *)
(* never descheduled for seconds: once a join can return it returns before *)
(* the clock moves on.  Runs and the capture thread may hang forever.      *)
(***************************************************************************)

\* a step of stop_listening the UI thread can take now
StopStepReady ==
    \/ /\ ui_pc = "stop_join_listener"
       /\ \/ cap_pc \in {"none", "exited"}
          \/ now >= join_started + LISTENER_JOIN_TIMEOUT
    \/ /\ ui_pc = "stop_join_transcription"
       /\ \/ ~IsAlive(join_target)
          \/ now >= join_started + TRANSCRIPTION_JOIN_TIMEOUT
    \/ ui_pc \in {"stop_is_alive", "stop_finish"}

StopTick == ~StopStepReady /\ ListenerTick

\* stop_listening is called early enough for both joins to time out within
\* the horizon
StopBeginInTime == now + 2 * TimeStep <= MaxListenTime /\ StopBegin

\* a run in flight found a verse
InFlightPut ==
    /\ Executing # {}
    /\ PipelinePut(FastCandidate("Jude", 1, 1))

NextStop ==
    \/ StartListening
    \/ CaptureOpen
    \/ CaptureUtterance
    \/ TriggerIsAlive
    \/ TriggerStart
    \/ CaptureExit
    \/ \E i \in 1..Len(runs) : RunBegin(i)
    \/ \E i \in 1..Len(runs) : RunFinish(i)
    \/ InFlightPut
    \/ StopBeginInTime
    \/ StopJoinListener
    \/ StopIsAlive
    \/ StopJoinTranscription
    \/ StopFinish
    \/ StopTick

SpecStop ==
    /\ InitListener /\ [][NextStop]_vars
    /\ WF_vars(StopTick)
    /\ WF_vars(StopJoinListener)
    /\ WF_vars(StopIsAlive)
    /\ WF_vars(StopJoinTranscription)
    /\ WF_vars(StopFinish)

\* stop_listening is inside its body
Stopping ==
    ui_pc \in {"stop_join_listener", "stop_is_alive", "stop_join_transcription",
              "stop_finish"}

DEFAULT_RETRIES == 2
MaxRetries == 3

\* what one request can end in
NetworkFailures == {"timeout", "connection"}  \* requests' RequestException
HttpFailures == {"http_error"}                \* status 4xx / 5xx
ParseFailures == {"bad_json", "no_choices"}   \* JSONDecodeError, IndexError
AttemptOutcomes ==
    NetworkFailures \cup HttpFailures \cup ParseFailures
    \cup {"bad_shape", "empty_content", "verse", "not_verse"}

\* the properties SettingsModel defines
SettingsProperties ==
    {"require_approval", "confidence_threshold", "auto_show_after_delay",
     "auto_show_delay_seconds", "sidebar_visible"}

Call(detector, retries) ==
    [pc |-> "loop", detector |-> detector, retries |-> retries, attempt |-> 0,
     posts |-> 0, failures |-> <<>>, sleeps |-> <<>>, result |-> "none"]

Done(call, result) == [call EXCEPT !.pc = "done", !.result = result]

retryFrame == <<detVars, uiVars, settings, now, dlgVars, lsnVars, streamVars,
                pipeVars, pollVars, capVars>>

\* OnlineGroqDetector.detect is called
GroqDetect ==
    /\ slow_call = NoCall
    /\ \E r \in 1..MaxRetries : slow_call' = Call("groq", r)
    /\ UNCHANGED retryFrame

\* one pass of "for attempt in range(self.retries)"
GroqAttempt ==
    /\ slow_call.pc = "loop"
    /\ slow_call.attempt < slow_call.retries
    /\ \E o \in AttemptOutcomes :
          LET posted == [slow_call EXCEPT !.posts = @ + 1,
                                          !.attempt = @ + 1,
                                          !.failures = Append(@, o)]
          IN slow_call' =
               CASE o = "verse" -> Done(posted, "verse")
                 [] o = "not_verse" -> Done(posted, "empty")
                 [] o = "bad_shape" -> Done(posted, "raised")
                 [] o = "empty_content" -> posted
                 [] OTHER ->
                      IF slow_call.attempt < slow_call.retries - 1
                      THEN [posted EXCEPT
                              !.sleeps = Append(@, 2 ^ slow_call.attempt)]
                      ELSE posted
    /\ UNCHANGED retryFrame

\* the loop is exhausted: return None
GroqExhausted ==
    /\ slow_call.pc = "loop"
    /\ slow_call.attempt = slow_call.retries
    /\ slow_call' = Done(slow_call, "empty")
    /\ UNCHANGED retryFrame

\* VerseDetector.detect: "if not self.settings.use_online_ai" is read
\* before the try
VerseDetectorDetect ==
    /\ slow_call = NoCall
    /\ slow_call' =
          IF "use_online_ai" \in SettingsProperties
          THEN Call("groq", DEFAULT_RETRIES)
          ELSE Done(Call("verse_detector", DEFAULT_RETRIES), "raised")
    /\ UNCHANGED retryFrame

\* validate_with_gemini: requests.post(...) outside any try, then
\* "if response.status_code != 200: return []"
GeminiRequest ==
    /\ slow_call = NoCall
    /\ \E o \in NetworkFailures \cup HttpFailures \cup {"verse"} :
          LET posted == [Call("gemini", DEFAULT_RETRIES) EXCEPT
                            !.posts = 1, !.attempt = 1, !.failures = <<o>>]
          IN slow_call' =
               CASE o \in NetworkFailures -> Done(posted, "raised")
                 [] o \in HttpFailures -> Done(posted, "empty")
                 [] OTHER -> Done(posted, "verse")
    /\ UNCHANGED retryFrame

InitRetry ==
    /\ DetIdle /\ UIIdle /\ DlgIdle /\ LsnIdle /\ ModelsReady /\ PipeIdle /\ RetryIdle
    /\ settings = DefaultSettings /\ now = 0

NextRetry ==
    \/ GroqDetect
    \/ GroqAttempt
    \/ GroqExhausted
    \/ VerseDetectorDetect
    \/ GeminiRequest

SpecRetry == InitRetry /\ [][NextRetry]_vars

\* the call met nothing but network or HTTP failures
OnlyNetworkOrHttp(call) ==
    /\ call.failures # <<>>
    /\ \A i \in 1..Len(call.failures) :
          call.failures[i] \in NetworkFailures \cup HttpFailures

\* C18: a slow-detector call makes at most the configured number of
\* attempts, and when every attempt fails with a network or HTTP failure it
\* has waited 1 s, 2 s, ... between an attempt and the next and returns an
\* empty result without raising.
C18_RetryContract ==
    slow_call.pc = "done" =>
        /\ slow_call.posts <= slow_call.retries
        /\ OnlyNetworkOrHttp(slow_call)
              => /\ slow_call.result = "empty"
                 /\ Len(slow_call.sleeps) = slow_call.posts - 1
                 /\ \A k \in 1..Len(slow_call.sleeps) :
                       slow_call.sleeps[k] = 2 ^ (k - 1)

\* an element with a book string and integer chapter and verse
ConformingItem(e) ==
    /\ e.t = "object"
    /\ e.book.t = "str"
    /\ e.chapter.t = "int" /\ e.verse.t = "int"
    /\ e.certainty.t \in {"missing", "int"}

\* the elements of the payload, if it is an object or a list
PayloadElems(text) ==
    CASE text.body.t = "object" -> <<text.body>>
      [] text.body.t = "list" -> text.body.elems
      [] OTHER -> <<>>

\* C19: the validator raises no exception whatever the response text is,
\* and returns no candidate for a payload without a conforming item
\* (not JSON, a scalar, items that are not objects, missing fields,
\* non-numeric chapter, verse or certainty).
C19_NonConformingGivesNothing ==
    det_pc = "raw_done" =>
        /\ sv_exc = "none"
        /\ (\A i \in 1..Len(PayloadElems(sv_in)) :
               ~ConformingItem(PayloadElems(sv_in)[i]))
              => sv_out = <<>>

\* C24: extract_candidate returns at most one candidate, and the candidate
\* has its book, chapter and verse present, confidence 0.95, source "fast",
\* is_partial false and review_required false.
C24_FastCandidateShape ==
    det_pc = "fast_done" =>
        /\ Len(fx_out) <= 1
        /\ IsSome(fx_out) =>
              /\ Val(fx_out).book # ""
              /\ Val(fx_out).chapter >= 1
              /\ Val(fx_out).verse >= 1
              /\ Val(fx_out).confidence_score = 95
              /\ Val(fx_out).source = "fast"
              /\ ~Val(fx_out).is_partial
              /\ ~Val(fx_out).review_required

\* two patterns matched different valid references and one candidate, the
\* first pattern's, was returned
C24_Witness ==
    /\ det_pc = "fast_done"
    /\ MatchIsValid(1) /\ MatchIsValid(3)
    /\ normalize_number(Val(fx_in[1]).verse) # normalize_number(Val(fx_in[3]).verse)
    /\ IsSome(fx_out)
    /\ Val(fx_out).verse = Val(normalize_number(Val(fx_in[1]).verse))

\* C30: while a confirmation popup is open nothing is dequeued and nothing
\* is accepted, and the pending buffer never holds more than one entry
\* (so at most one candidate awaits confirmation).
C30_OneConfirmationAtATime ==
    /\ [](Len(confirmation_buffer) <= 1)
    /\ [](confirmation_buffer # <<>> => IsSome(confirmation_popup))
    /\ [][(IsSome(confirmation_popup) /\ IsSome(confirmation_popup'))
            => /\ confirmation_popup' = confirmation_popup
               /\ Len(verse_queue') >= Len(verse_queue)
               /\ live_history' = live_history]_vars

\* a popup is open for one verse while another verse waits on the queue
\* and a third one was accepted before
C30_Witness ==
    /\ IsSome(confirmation_popup)
    /\ Len(confirmation_buffer) = 1
    /\ verse_queue # <<>>
    /\ live_history # <<>>

\* The confirmation flow with Tk's timers: time passes, and a popup timer or
\* a queue poll that is due fires (the Tk main loop runs `after` callbacks);
\* the user's buttons stay possible but are never forced.
SpecTimeout ==
    /\ InitUI /\ [][NextUI]_vars
    /\ WF_vars(Tick) /\ WF_vars(PopupAutoProcess) /\ WF_vars(CheckVerseQueue)

\* the popup's timeout still fits in the modelled time
TimeoutFits ==
    /\ IsSome(confirmation_popup)
    /\ Val(confirmation_popup).opened_at + Val(confirmation_popup).timeout_s
          <= MaxTime

\* the verse has an entry in the pending buffer
Buffered(v) ==
    \E i \in 1..Len(confirmation_buffer) :
        get_verse_key(confirmation_buffer[i]) = get_verse_key(v)

C23_Resolves == TimeoutFits ~> ~IsSome(confirmation_popup)

C23_StaysBuffered ==
    [](IsSome(confirmation_popup) => Buffered(Val(confirmation_popup).verse_data))

\* C23: every candidate awaiting confirmation is eventually resolved by the
\* timeout path, whatever the configured timeout (zero included), and stays
\* in the pending buffer until it is resolved.
C23_AwaitingResolves == C23_Resolves /\ C23_StaysBuffered

\* the poll chain never breaks and never doubles
C26_OnePollPending == polls = 1

\* the queue drains, unless the modelled time ends under an open popup
QueueDrains ==
    []<>(\/ verse_queue = <<>>
         \/ (IsSome(confirmation_popup) /\ ~TimeoutFits))

\* C26: check_verse_queue reschedules itself exactly once on every path, so
\* exactly one poll is pending at all times, and every item put on the queue
\* is eventually dequeued.
C26_PollsAndDrains == [](polls = 1) /\ QueueDrains

\* C21: once the capture thread has ended (the device could not be opened, or
\* the loop was left), the listener is idle: is_listening() is false, so
\* that a later start_listening starts a new capture loop.
C21_DeviceFailureEndsIdle == cap_pc = "exited" => ~running

(***************************************************************************)
(* SpecCapture: the capture stage frame by frame.                          *)
(*   the UI thread        start_listening, stop_listening                  *)
(*   the PortAudio thread _audio_callback                                  *)
(*   the capture thread   _run: the while test, _audio_queue.get(), and    *)
(*                        _trigger_transcription_if_needed, whose          *)
(*                        list(audio_buffer) and audio_buffer.clear() are   *)
(*                        two steps                                        *)
(* cap_pc is "loop" at the while test and "get" inside _audio_queue.get(). *)
(***************************************************************************)

\* stop_listening's _audio_queue.put(None); frames are numbered from 1
Sentinel == 0

\* the queues the window can hand to start_listening
OutputQueues == {"q1", "q2"}

MaxQueue == 3

capFrame == <<settings, detVars, uiVars, dlgVars, last_confirmed,
              confirmations, pipe, ai_available, retryVars, pollVars>>

\* "if self._running.is_set(): return"
StartReturnsEarly == running

\* a stop_listening without its guard
C25MutStopReturnsEarly == FALSE

\* "if not self._running.is_set(): return"
StopReturnsEarly == ~running

\* VerseListener.start_listening(verse_queue): returns at once while
\* listening, raises RuntimeError if a model is missing, else binds the
\* queue, sets the event and starts the capture thread (the previous
\* capture thread has ended)
start_listening(q) ==
    /\ ui_pc = "idle"
    /\ IF StartReturnsEarly
       THEN /\ ui_result' = "start:returned"
            /\ UNCHANGED <<bound_queue, running, cap_pc, last_processed_transcript>>
       ELSE IF ~models_loaded
       THEN /\ ui_result' = "start:RuntimeError"
            /\ UNCHANGED <<bound_queue, running, cap_pc, last_processed_transcript>>
       ELSE /\ cap_pc \in {"none", "exited"}
            /\ bound_queue' = Some(q)
            /\ running' = TRUE
            /\ cap_pc' = "open"
            /\ last_processed_transcript' = None
            /\ ui_result' = "start:started"
    /\ UNCHANGED <<transcription_thread, runs, join_started, join_target, ui_pc,
                   last_detection_time, now, stream, open_streams, frames,
                   models_loaded, audio_queue, audio_buffer, snapshots, evicted,
                   device_error, capFrame>>

\* VerseListener.stop_listening up to the join of the listener thread:
\* returns at once while idle; else clears the event, stops and closes the
\* stream "if self._stream", and puts the None sentinel on _audio_queue
stop_listening ==
    /\ ui_pc = "idle"
    /\ IF StopReturnsEarly
       THEN /\ ui_result' = "stop:returned"
            /\ UNCHANGED <<running, open_streams, audio_queue, ui_pc, join_started>>
       ELSE /\ Len(audio_queue) < MaxQueue
            /\ running' = FALSE
            /\ open_streams' = IF IsSome(stream) THEN open_streams - 1
                               ELSE open_streams
            /\ audio_queue' = Append(audio_queue, Sentinel)
            /\ ui_pc' = "stop_join_listener"
            /\ join_started' = now
            /\ ui_result' = "stop:stopping"
    /\ UNCHANGED <<transcription_thread, runs, join_target, cap_pc,
                   last_detection_time, now, stream, frames,
                   last_processed_transcript, models_loaded, bound_queue,
                   audio_buffer, snapshots, evicted, device_error, capFrame>>

\* _run: "while self._running.is_set():"
LoopTest ==
    /\ cap_pc = "loop"
    /\ cap_pc' = IF running THEN "get" ELSE "exited"
    /\ UNCHANGED <<running, transcription_thread, runs, join_started,
                   join_target, ui_pc, last_detection_time, now, lsnFrame,
                   stream, open_streams, last_processed_transcript>>

\* _run: data = self._audio_queue.get(); None breaks the loop, a frame goes
\* to the recogniser, which has a result (an utterance ended) or not
LoopGet ==
    /\ cap_pc = "get"
    /\ audio_queue # <<>>
    /\ audio_queue' = Tail(audio_queue)
    /\ IF Head(audio_queue) = Sentinel
       THEN cap_pc' = "exited"
       ELSE \E accepted \in BOOLEAN :
               cap_pc' = IF accepted THEN "trigger" ELSE "loop"
    /\ UNCHANGED <<running, transcription_thread, runs, join_started,
                   join_target, ui_pc, last_detection_time, now, stream,
                   open_streams, frames, last_processed_transcript,
                   models_loaded, bound_queue, audio_buffer, snapshots,
                   evicted, ui_result, device_error, capFrame>>

\* _trigger_transcription_if_needed: the in-flight test and the cooldown
Trigger ==
    /\ cap_pc = "trigger"
    /\ cap_pc' = IF IsSome(transcription_thread)
                    /\ IsAlive(Val(transcription_thread)) THEN "loop"
                 ELSE IF AfterCooldown = "loop" THEN "loop"
                 ELSE "snapshot"
    /\ UNCHANGED <<running, transcription_thread, runs, join_started,
                   join_target, ui_pc, last_detection_time, now, lsnFrame,
                   stream, open_streams, last_processed_transcript>>

\* audio_snapshot = list(self.audio_buffer)
TriggerSnapshot ==
    /\ cap_pc = "snapshot"
    /\ snapshots' = Append(snapshots, audio_buffer)
    /\ cap_pc' = "clear"
    /\ UNCHANGED <<running, transcription_thread, runs, join_started,
                   join_target, ui_pc, last_detection_time, now, stream,
                   open_streams, frames, last_processed_transcript,
                   models_loaded, bound_queue, audio_queue, audio_buffer,
                   evicted, ui_result, device_error, capFrame>>

\* self.audio_buffer.clear()
TriggerClear ==
    /\ cap_pc = "clear"
    /\ audio_buffer' = <<>>
    /\ cap_pc' = "trig_start"
    /\ UNCHANGED <<running, transcription_thread, runs, join_started,
                   join_target, ui_pc, last_detection_time, now, stream,
                   open_streams, frames, last_processed_transcript,
                   models_loaded, bound_queue, audio_queue, snapshots,
                   evicted, ui_result, device_error, capFrame>>

InitCapture ==
    /\ DetIdle /\ UIIdle /\ DlgIdle /\ LsnIdle /\ PipeIdle /\ RetryIdle
    /\ models_loaded \in BOOLEAN
    /\ settings = DefaultSettings
    /\ now = TimeStep

NextCapture ==
    \/ \E q \in OutputQueues : start_listening(q)
    \/ stop_listening
    \/ StopJoinListener
    \/ StopIsAlive
    \/ StopJoinTranscription
    \/ StopFinish
    \/ AudioCallback
    \/ CaptureOpen
    \/ LoopTest
    \/ LoopGet
    \/ Trigger
    \/ TriggerSnapshot
    \/ TriggerClear
    \/ TriggerStart
    \/ \E i \in 1..Len(runs) : RunBegin(i)
    \/ \E i \in 1..Len(runs) : RunFinish(i)
    \/ ListenerTick

SpecCapture == InitCapture /\ [][NextCapture]_vars

\* the None sentinels waiting on the frame queue
Sentinels(q) == Cardinality({i \in 1..Len(q) : q[i] = Sentinel})

\* no capture thread is started, no sentinel queued, and the output queue
\* binding is kept, over one step
NothingStarted ==
    /\ (cap_pc' = "open" => cap_pc = "open")
    /\ Sentinels(audio_queue') <= Sentinels(audio_queue)
    /\ bound_queue' = bound_queue

\* what the call that just returned says about the state it found and left
CallOutcome ==
    /\ ui_result' = "start:returned" => (running /\ running')
    /\ ui_result' = "stop:returned" => (~running /\ ~running')
    /\ ui_result' = "start:RuntimeError" =>
           (~running /\ ~running' /\ ~models_loaded)
    /\ ui_result' = "start:started" => (~running /\ running' /\ models_loaded)
    /\ ui_result' = "stop:stopping" => (running /\ ~running')

\* C25: the listener is a two-state machine. A step that leaves it
\* listening, or leaves it idle (start_listening while listening,
\* stop_listening while idle, start_listening without models), starts no
\* capture thread, queues no sentinel and keeps the output queue binding;
\* without models start_listening raises and the listener never leaves idle.
C25_TwoStateMachine ==
    /\ [][running' = running => NothingStarted]_vars
    /\ [][running' # running =>
             ui_result' = IF running' THEN "start:started" ELSE "stop:stopping"]_vars
    /\ [](~models_loaded =>
             /\ ~running /\ cap_pc = "none" /\ bound_queue = None
             /\ ui_result \in {"none", "start:RuntimeError", "stop:returned"})
    /\ [][ui_result' # ui_result => CallOutcome]_vars

\* stop_listening was called while idle, after a session that bound a queue
\* and left a capture thread behind it
C25_Witness ==
    /\ ui_result = "stop:returned"
    /\ ~running
    /\ IsSome(bound_queue)
    /\ cap_pc = "exited"

\* C27: while the listener is listening and no device error has occurred,
\* the capture loop waiting in
\* _audio_queue.get() is not ended by what it reads: a sentinel left on the
\* frame queue by an earlier stop_listening never terminates the new loop.
C27_NewLoopRuns ==
    [][(running /\ ~device_error /\ cap_pc = "get") => cap_pc' # "exited"]_vars

\* how often frame f occurs in the snapshots the triggers have taken
InSnapshots(f) ==
    Cardinality({<<i, j>> \in (1..Len(snapshots)) \X (1..AudioBufferMax) :
                    j <= Len(snapshots[i]) /\ snapshots[i][j] = f})

\* how often frame f occurs in the ring buffer
InRing(f) == Cardinality({j \in 1..Len(audio_buffer) : audio_buffer[j] = f})

\* C29: outside the trigger's snapshot-and-clear, every frame the callback
\* appended is in exactly one snapshot or still in the ring buffer, unless
\* the ring bound evicted it.
C29_NoFrameLost ==
    cap_pc # "clear" =>
        \A f \in 1..frames : f \in evicted \/ InSnapshots(f) + InRing(f) = 1

\* C28: a run that clears its own handle while the trigger or stop_listening
\* is between its two reads of the handle makes neither fail: the capture
\* loop goes on and stop_listening goes on to reset its handles.
C28_ClearedHandleHarmless ==
    [][/\ (cap_pc = "trig_is_alive" => cap_pc' # "exited")
       /\ (ui_pc = "stop_is_alive" => ui_pc' # "idle")]_vars

(***************************************************************************)
(* SpecOrder: the runs and what they put on the output queue. Run i        *)
(* transcribes an utterance naming Jude 1:i, so that the verse of a queued *)
(* item tells which run put it.                                            *)
(***************************************************************************)

\* run i has put its candidate
HasPut(i) == \E k \in 1..Len(candidates) : candidates[k].verse = i

\* _process_transcript_logic in run i: the fast extractor found the verse
\* and self.verse_queue.put(...) and verse_buffer.add_candidate(...) follow
RunPut(i) ==
    /\ runs[i].pc = "running"
    /\ ~HasPut(i)
    /\ PipelinePut(FastCandidate("Jude", 1, i))

NextOrder ==
    \/ StartListening
    \/ CaptureOpen
    \/ CaptureUtterance
    \/ TriggerIsAlive
    \/ TriggerStart
    \/ ManualSubmit
    \/ ManualIsAlive
    \/ ManualStart
    \/ \E i \in 1..Len(runs) : RunBegin(i)
    \/ \E i \in 1..Len(runs) : RunPut(i)
    \/ \E i \in 1..Len(runs) : RunFinish(i)

SpecOrder == InitListener /\ [][NextOrder]_vars

\* C22: the candidates are on the output queue in the order in which the
\* runs that found them were started.
C22_QueueInStartOrder ==
    \A a, b \in 1..Len(verse_queue) :
        a < b => verse_queue[a].verse < verse_queue[b].verse

====
